---- MODULE Spec2Model ----
(***************************************************************************)
(* Model of the telemetry decoder of src/http_server3.py:                  *)
(* parse_hex_content, run one statement group at a time (Spec);            *)
(* format_parsed_data_for_display applied to its result (SpecDisplay);     *)
(* the coordinate and altitude normalizers on their own (SpecNorm);        *)
(* concurrent /api/receive requests on the shared DATA_STORE (SpecStore).  *)
(*                                                                         *)
(* Python str values are sequences of Unicode code points, bytes values    *)
(* are sequences of 0..255.  The dict parsed_data is a function from key   *)
(* names to values; the Chinese keys of the source are written in English: *)
(*   data_id = 数据标识      fix_time = 定位时间    lat_hemi = 纬度半球    *)
(*   lat_raw = 原始纬度值    lon_hemi = 经度半球    lon_raw = 原始经度值   *)
(*   altitude = 高程         separator = 隔离符     custom_data = 自定义数据*)
(* The fixed message texts of the source are named by the Err..., Warn...  *)
(* and Status... definitions below.                                        *)
(***************************************************************************)
EXTENDS Integers, Sequences, FiniteSets, TLC

VARIABLES hex_str,          \* the argument of parse_hex_content
          pc,               \* position inside parse_hex_content
          parsed_data,      \* the dict being built and returned
          byte_data,        \* binascii.unhexlify(hex_str)
          offset,           \* running offset into byte_data
          remaining_bytes,  \* byte_data[offset:] after the separator
          i,                \* index of the mixed GBK/ASCII loop
          custom_data_decoded_parts,  \* pieces emitted by the loop
          formatted,        \* the dict format_parsed_data_for_display returns
          npc,              \* which normalizer call is running, and where
          hemisphere,       \* argument of format_coords / convert_dmm_to_decimal
          value_str,        \* argument of format_coords / convert_dmm_to_decimal
          coord_display,    \* result of format_coords
          decimal_deg,      \* result of convert_dmm_to_decimal
          alt_str,          \* argument of format_altitude
          alt_display,      \* result of format_altitude
          DATA_STORE,       \* the global dict: IdNumber -> list of entries
          requests,         \* the /api/receive requests being handled
          data_file         \* what save_data last wrote to DATA_FILE

parsevars == <<hex_str, pc, parsed_data, byte_data, offset, remaining_bytes, i,
               custom_data_decoded_parts>>

normvars == <<npc, hemisphere, value_str, coord_display, decimal_deg, alt_str,
              alt_display>>

storevars == <<DATA_STORE, requests, data_file>>

vars == <<parsevars, formatted, normvars, storevars>>

\* what parse_hex_content does not touch
outside_parse == <<formatted, normvars, storevars>>

-----------------------------------------------------------------------------
(* Bounds of the model *)

\* longest trailing (custom data) segment appended to the canonical header
MaxTrail == 3

-----------------------------------------------------------------------------
(* Texts of the source *)

ErrNotHex == "input is not a valid hexadecimal string"
ErrUnhexlify == "hexadecimal decoding failed: Odd-length string"
StatusHexFormat == "hexadecimal string format error"
StatusHexDecode == "hexadecimal decode error"
StatusParseError == "parse error"
StatusWarning == "parse warning"
StatusSuccess == "parse success"

ErrShortDataId == "insufficient length for data_id"
ErrShortFixTime == "insufficient length for fix_time"
ErrShortLatHemi == "insufficient length for lat_hemi"
ErrShortLatRaw == "insufficient length for lat_raw"
ErrShortLonHemi == "insufficient length for lon_hemi"
ErrShortLonRaw == "insufficient length for lon_raw"
ErrShortAltitude == "insufficient length for altitude"
ErrShortSeparator == "insufficient length for separator"

WarnDataId == "data_id is not 0xA4"
WarnFixTime == "fix_time is not ASCII"
WarnLatHemi == "lat_hemi is not ASCII"
WarnLatRaw == "lat_raw is not ASCII"
WarnLonHemi == "lon_hemi is not ASCII"
WarnLonRaw == "lon_raw is not ASCII"
WarnAltitude == "altitude is not ASCII"
WarnSeparator == "separator is not '-' (0x2D)"

\* " (解码失败)" as code points
DecodeFailedSuffix == <<32, 40, 35299, 30721, 22833, 36133, 41>>

-----------------------------------------------------------------------------
(* Hexadecimal text <-> bytes *)

\* variant: the character class written as [0-9a-gA-G]
IsHexDigitLoose(c) == c \in 48..57 \/ c \in 97..103 \/ c \in 65..71

\* the character class [0-9a-fA-F] of the regular expression
IsHexDigit(c) == c \in 48..57 \/ c \in 97..102 \/ c \in 65..70

\* re.fullmatch(r'^[0-9a-fA-F]*$', hex_str)
MatchesHexPattern(s) == \A k \in 1..Len(s) : IsHexDigit(s[k])

\* value of one hexadecimal digit, either case
HexVal(c) == IF c \in 48..57 THEN c - 48
             ELSE IF c \in 97..102 THEN c - 87
             ELSE c - 55

\* binascii.unhexlify raises binascii.Error on an odd number of digits
UnhexlifyRaises(s) == Len(s) % 2 = 1

\* binascii.unhexlify(s) for an even-length string of hex digits
Unhexlify(s) == [k \in 1..(Len(s) \div 2) |->
                    16 * HexVal(s[2 * k - 1]) + HexVal(s[2 * k])]

\* one hex digit as a character: lower case ("%x") or upper case ("%X")
HexChar(n, upper) == IF n < 10 THEN 48 + n
                     ELSE IF upper THEN 55 + n ELSE 87 + n

\* two hex digits of one byte
HexByte(b, upper) == <<HexChar(b \div 16, upper), HexChar(b % 16, upper)>>

RECURSIVE Hexlify(_, _)
\* binascii.hexlify(bytes).decode() / bytes.hex(): lower case when ~upper
Hexlify(bytes, upper) ==
    IF bytes = <<>> THEN <<>>
    ELSE HexByte(Head(bytes), upper) \o Hexlify(Tail(bytes), upper)

\* f"0x{b:02X}"
FormatByte0x(b) == <<48, 120>> \o HexByte(b, TRUE)

\* bytes.decode('ascii') raises UnicodeDecodeError iff some byte is >= 0x80
AsciiDecodable(bytes) == \A k \in 1..Len(bytes) : bytes[k] < 128

\* f"<{binascii.hexlify(bytes).decode()}> (解码失败)"
DecodeFailedText(bytes) == <<60>> \o Hexlify(bytes, FALSE) \o <<62>> \o DecodeFailedSuffix

\* byte_data[a : a + n] (Python slice, 0-based a), for a + n <= len
Slice(bytes, a, n) == SubSeq(bytes, a + 1, a + n)

-----------------------------------------------------------------------------
(* The dict parsed_data *)

Has(pd, key) == key \in DOMAIN pd

\* pd[key] = value
Put(pd, key, value) == (key :> value) @@ pd

\* variant: the warning replaces the earlier ones instead of extending them
AddWarningOverwrite(pd, w) == Put(pd, "parse_warning_detail", <<w>>)

\* pd['parse_warning_detail'] = pd.get('parse_warning_detail', '') + w
AddWarning(pd, w) ==
    IF Has(pd, "parse_warning_detail")
    THEN [pd EXCEPT !["parse_warning_detail"] = Append(@, w)]
    ELSE Put(pd, "parse_warning_detail", <<w>>)

\* the three assignments before every early return
Fatal(pd, status, detail) ==
    Put(Put(Put(pd, "parse_status_text", [text |-> status, detail |-> <<>>]),
            "parse_status_class", "error-text"),
        "parse_error_detail", detail)

-----------------------------------------------------------------------------
(* The GBK codec, as far as bytes[i : i + 2].decode('gbk') uses it *)

\* Two-byte sequences with no character assigned (user-defined areas and the
\* tail of the table).  The partly filled symbol rows 0xA1..0xA9 are not
\* described; TrailAlphabet stays outside them.
GbkUnassigned(b1, b2) ==
    \/ b1 \in 170..175 /\ b2 >= 161
    \/ b1 \in 248..254 /\ b2 >= 161
    \/ b1 = 215 /\ b2 >= 250
    \/ b1 = 254 /\ b2 >= 80

\* bytes.decode('gbk') of a slice of one or two bytes does not raise: only
\* single-byte characters (each < 0x80), or a lead byte 0x81..0xFE with a
\* trail byte 0x40..0xFE except 0x7F that has a character assigned.
GbkDecodable(bytes) ==
    \/ \A k \in 1..Len(bytes) : bytes[k] < 128
    \/ /\ Len(bytes) = 2
       /\ bytes[1] \in 129..254
       /\ bytes[2] \in 64..254 /\ bytes[2] # 127
       /\ ~GbkUnassigned(bytes[1], bytes[2])

\* code point of a two-byte GBK character (the pairs over TrailAlphabet)
GbkCodePoint(b1, b2) ==
    CASE b1 = 196 /\ b2 = 65  -> 33089
      [] b1 = 196 /\ b2 = 196 -> 21738
      [] b1 = 196 /\ b2 = 254 -> 23425
      [] b1 = 254 /\ b2 = 65  -> 64013

\* the str that bytes.decode('gbk') returns for a decodable slice
GbkDecode(bytes) ==
    IF \A k \in 1..Len(bytes) : bytes[k] < 128 THEN bytes
    ELSE <<GbkCodePoint(bytes[1], bytes[2])>>

\* bytes[a : b] (Python slice, 0-based, clipped at the end)
PySlice(bytes, a, b) ==
    SubSeq(bytes, a + 1, IF b < Len(bytes) THEN b ELSE Len(bytes))

\* variant: the escape written with a 0x prefix, "<0xff>"
EscapeTextPrefixed(b) == <<60, 48, 120>> \o HexByte(b, FALSE) \o <<62>>

\* f"<{remaining_bytes[i : i + 1].hex()}>"
EscapeText(b) == <<60>> \o HexByte(b, FALSE) \o <<62>>

RECURSIVE Join(_)
\* ''.join(parts)
Join(parts) == IF parts = <<>> THEN <<>> ELSE Head(parts) \o Join(Tail(parts))

-----------------------------------------------------------------------------
(* Inputs *)

\* bytes the trailing segments are built from: '1' (ASCII, no GBK trail),
\* 'A' (ASCII and GBK trail), 0xC4 (GBK lead and trail), 0xFE (GBK lead with
\* few assigned trails), 0xFF (valid nowhere)
TrailAlphabet == {49, 65, 196, 254, 255}

RECURSIVE SeqsUpTo(_, _)
\* all sequences over S of length 0..n
SeqsUpTo(S, n) ==
    IF n = 0 THEN {<<>>}
    ELSE LET shorter == SeqsUpTo(S, n - 1)
         IN shorter \cup {Append(t, x) : t \in {u \in shorter : Len(u) = n - 1}, x \in S}

\* "12:34:56", "4005.76783", "11623.45678", "+00099.5"
GoodTime == <<49, 50, 58, 51, 52, 58, 53, 54>>
GoodLat == <<52, 48, 48, 53, 46, 55, 54, 55, 56, 51>>
GoodLon == <<49, 49, 54, 50, 51, 46, 52, 53, 54, 55, 56>>
GoodAlt == <<43, 48, 48, 48, 57, 57, 46, 53>>

\* the same field with its last byte replaced by a non-ASCII byte
Spoil(field) == [field EXCEPT ![Len(field)] = 233]

\* headers: every fixed field in a well-formed and in anomalous variants
Headers ==
    { <<m>> \o t \o <<lh>> \o la \o <<oh>> \o lo \o al \o <<s>> :
        m \in {164, 0},
        t \in {GoodTime, Spoil(GoodTime)},
        lh \in {78, 88, 200},              \* 'N', 'X', non-ASCII
        la \in {GoodLat, Spoil(GoodLat)},
        oh \in {69, 81, 200},              \* 'E', 'Q', non-ASCII
        lo \in {GoodLon, Spoil(GoodLon)},
        al \in {GoodAlt, Spoil(GoodAlt)},
        s \in {45, 43} }                   \* '-', '+'

CanonHeader == <<164>> \o GoodTime \o <<83>> \o GoodLat \o <<87>> \o GoodLon
               \o GoodAlt \o <<45>>

\* every prefix of every header, in upper-case hex
TruncatedInputs ==
    { Hexlify(SubSeq(h, 1, n), TRUE) : h \in Headers, n \in 0..41 }

\* the canonical header followed by every trailing segment, either case
TrailInputs ==
    { Hexlify(CanonHeader \o t, u) :
        t \in SeqsUpTo(TrailAlphabet, MaxTrail), u \in BOOLEAN }

\* an anomalous header with a short trailing segment
MixedInputs ==
    { Hexlify(h \o t, TRUE) : h \in {x \in Headers : x[1] = 0 \/ x[41] = 43},
                              t \in {<<65>>, <<255, 49>>} }

\* characters that are no hex digits: 'g', 'G', ' ', newline
NonHexChars == {103, 71, 32, 10}

\* strings that are not valid hexadecimal text: a digit dropped (odd length),
\* a character replaced by a non-hex character, or both
DamagedInputs ==
    LET base == { Hexlify(SubSeq(CanonHeader \o <<196, 65>>, 1, n), u) :
                    n \in 1..43, u \in BOOLEAN }
        odd == { SubSeq(s, 1, Len(s) - 1) : s \in base }
        bad == UNION { { [s EXCEPT ![p] = c] : p \in {1, Len(s)}, c \in NonHexChars } :
                    s \in {x \in base \cup odd : Len(x) \in {1, 2, 81, 82, 85, 86}} }
    IN odd \cup bad \cup {<<10>>}

Inputs == TruncatedInputs \cup TrailInputs \cup MixedInputs \cup DamagedInputs

-----------------------------------------------------------------------------
(* parse_hex_content *)

total_len == Len(byte_data)

\* variant: a field that ends exactly at the end of the buffer is refused
TooShortStrict(len, off, n) == len <= off + n

\* the test before each extraction: total_len < offset + n
TooShort(len, off, n) == len < off + n

\* variant: the separator is compared with '+' (0x2B)
IsExpectedSeparatorPlus(b) == b = 43

\* data_id != 0xA4 and separator != 0x2D, negated
IsExpectedMarker(b) == b = 164

IsExpectedSeparator(b) == b = 45

\* no normalizer call of its own is running
NormIdle ==
    /\ npc = "idle"
    /\ hemisphere = <<>>
    /\ value_str = <<>>
    /\ coord_display = <<>>
    /\ decimal_deg = [present |-> FALSE, micro |-> 0]
    /\ alt_str = <<>>
    /\ alt_display = <<>>

\* no request is being handled
StoreIdle ==
    /\ DATA_STORE = <<>>
    /\ requests = <<>>
    /\ data_file = <<>>

\* parse_hex_content is entered with an argument drawn from S
InitParse(S) ==
    /\ hex_str \in S
    /\ pc = "validate"
    /\ parsed_data = ("raw_hex_content" :> hex_str)
    /\ byte_data = <<>>
    /\ offset = 0
    /\ remaining_bytes = <<>>
    /\ i = 0
    /\ custom_data_decoded_parts = <<>>
    /\ formatted = <<>>

Init == InitParse(Inputs) /\ NormIdle /\ StoreIdle

\* the pattern test and its early return
ValidateHex ==
    /\ pc = "validate"
    /\ IF ~MatchesHexPattern(hex_str)
       THEN /\ parsed_data' = Fatal(parsed_data, StatusHexFormat, ErrNotHex)
            /\ pc' = "done"
       ELSE /\ pc' = "unhexlify"
            /\ UNCHANGED parsed_data
    /\ UNCHANGED <<hex_str, byte_data, offset, remaining_bytes, i,
                   custom_data_decoded_parts>>
    /\ UNCHANGED outside_parse

\* binascii.unhexlify with its except clause, then offset = 0
UnhexlifyStep ==
    /\ pc = "unhexlify"
    /\ IF UnhexlifyRaises(hex_str)
       THEN /\ parsed_data' = Fatal(parsed_data, StatusHexDecode, ErrUnhexlify)
            /\ pc' = "done"
            /\ UNCHANGED <<byte_data, offset>>
       ELSE /\ byte_data' = Unhexlify(hex_str)
            /\ offset' = 0
            /\ pc' = "data_id"
            /\ UNCHANGED parsed_data
    /\ UNCHANGED <<hex_str, remaining_bytes, i, custom_data_decoded_parts>>
    /\ UNCHANGED outside_parse

\* 1. data identifier (1 byte), compared with 0xA4
ParseDataId ==
    /\ pc = "data_id"
    /\ IF TooShort(total_len, offset, 1)
       THEN /\ parsed_data' = Fatal(parsed_data, StatusParseError, ErrShortDataId)
            /\ pc' = "done"
            /\ UNCHANGED offset
       ELSE /\ LET data_id == byte_data[offset + 1]
                   pd == Put(parsed_data, "data_id", FormatByte0x(data_id))
               IN parsed_data' = IF ~IsExpectedMarker(data_id) THEN AddWarning(pd, WarnDataId) ELSE pd
            /\ offset' = offset + 1
            /\ pc' = "fix_time"
    /\ UNCHANGED <<hex_str, byte_data, remaining_bytes, i, custom_data_decoded_parts>>
    /\ UNCHANGED outside_parse

\* fields 2..7: length test, ASCII decode with its except clause, offset += n
ParseAsciiField(here, key, n, err, warn, next) ==
    /\ pc = here
    /\ IF TooShort(total_len, offset, n)
       THEN /\ parsed_data' = Fatal(parsed_data, StatusParseError, err)
            /\ pc' = "done"
            /\ UNCHANGED offset
       ELSE /\ LET b == Slice(byte_data, offset, n)
               IN parsed_data' =
                    IF AsciiDecodable(b)
                    THEN Put(parsed_data, key, b)
                    ELSE AddWarning(Put(parsed_data, key, DecodeFailedText(b)), warn)
            /\ offset' = offset + n
            /\ pc' = next
    /\ UNCHANGED <<hex_str, byte_data, remaining_bytes, i, custom_data_decoded_parts>>
    /\ UNCHANGED outside_parse

ParseFixTime ==
    ParseAsciiField("fix_time", "fix_time", 8, ErrShortFixTime, WarnFixTime, "lat_hemi")

ParseLatHemi ==
    ParseAsciiField("lat_hemi", "lat_hemi", 1, ErrShortLatHemi, WarnLatHemi, "lat_raw")

\* variant: the 11-byte latitude field of the earlier wire layout
ParseLatRawWide ==
    ParseAsciiField("lat_raw", "lat_raw", 11, ErrShortLatRaw, WarnLatRaw, "lon_hemi")

ParseLatRaw ==
    ParseAsciiField("lat_raw", "lat_raw", 10, ErrShortLatRaw, WarnLatRaw, "lon_hemi")

\* variant: the longitude hemisphere stored under the latitude's key
ParseLonHemiWrongKey ==
    ParseAsciiField("lon_hemi", "lat_hemi", 1, ErrShortLonHemi, WarnLonHemi, "lon_raw")

ParseLonHemi ==
    ParseAsciiField("lon_hemi", "lon_hemi", 1, ErrShortLonHemi, WarnLonHemi, "lon_raw")

ParseLonRaw ==
    ParseAsciiField("lon_raw", "lon_raw", 11, ErrShortLonRaw, WarnLonRaw, "altitude")

ParseAltitude ==
    ParseAsciiField("altitude", "altitude", 8, ErrShortAltitude, WarnAltitude, "separator")

\* 8. separator (1 byte), compared with 0x2D; then the loop's initialisation
ParseSeparator ==
    /\ pc = "separator"
    /\ IF TooShort(total_len, offset, 1)
       THEN /\ parsed_data' = Fatal(parsed_data, StatusParseError, ErrShortSeparator)
            /\ pc' = "done"
            /\ UNCHANGED <<offset, remaining_bytes, i, custom_data_decoded_parts>>
       ELSE /\ LET separator == byte_data[offset + 1]
                   pd == Put(parsed_data, "separator", FormatByte0x(separator))
               IN parsed_data' = IF ~IsExpectedSeparator(separator) THEN AddWarning(pd, WarnSeparator) ELSE pd
            /\ offset' = offset + 1
            /\ remaining_bytes' = SubSeq(byte_data, offset + 2, total_len)
            /\ i' = 0
            /\ custom_data_decoded_parts' = <<>>
            /\ pc' = "custom"
    /\ UNCHANGED <<hex_str, byte_data>>
    /\ UNCHANGED outside_parse

\* variant: the two-byte attempt needs a third byte to remain
TwoBytesRemainStrict(k, len) == k + 2 < len

\* variant: the two-byte attempt is also made on the last byte
TwoBytesRemainLoose(k, len) == k + 1 <= len

\* the test guarding the two-byte attempt: i + 1 < len(remaining_bytes)
TwoBytesRemain(k, len) == k + 1 < len

\* one iteration of the while loop: GBK pair, else ASCII byte, else escape
DecodeStep ==
    /\ pc = "custom"
    /\ i < Len(remaining_bytes)
    /\ LET two == PySlice(remaining_bytes, i, i + 2)
           one == PySlice(remaining_bytes, i, i + 1)
       IN IF TwoBytesRemain(i, Len(remaining_bytes)) /\ GbkDecodable(two)
          THEN /\ custom_data_decoded_parts' =
                     Append(custom_data_decoded_parts, GbkDecode(two))
               /\ i' = i + 2
          ELSE IF AsciiDecodable(one)
          THEN /\ custom_data_decoded_parts' = Append(custom_data_decoded_parts, one)
               /\ i' = i + 1
          ELSE /\ custom_data_decoded_parts' =
                     Append(custom_data_decoded_parts, EscapeText(one[1]))
               /\ i' = i + 1
    /\ UNCHANGED <<hex_str, pc, parsed_data, byte_data, offset, remaining_bytes>>
    /\ UNCHANGED outside_parse

\* variant: the warning branch is missing
FinalStatusNoWarning(pd) ==
    IF Has(pd, "parse_error_detail")
    THEN Put(pd, "parse_status_class", "error-text")
    ELSE Put(Put(pd, "parse_status_text", [text |-> StatusSuccess, detail |-> <<>>]),
             "parse_status_class", "success-text")

\* the status chosen after the loop
FinalStatus(pd) ==
    IF Has(pd, "parse_error_detail")
    THEN Put(Put(pd, "parse_status_text",
                 IF Has(pd, "parse_status_text") THEN pd["parse_status_text"]
                 ELSE [text |-> StatusParseError, detail |-> <<>>]),
             "parse_status_class", "error-text")
    ELSE IF Has(pd, "parse_warning_detail")
    THEN Put(Put(pd, "parse_status_text",
                 [text |-> StatusWarning, detail |-> pd["parse_warning_detail"]]),
             "parse_status_class", "error-text")
    ELSE Put(Put(pd, "parse_status_text", [text |-> StatusSuccess, detail |-> <<>>]),
             "parse_status_class", "success-text")

\* loop exit: join the pieces, choose the status, return
Finalize ==
    /\ pc = "custom"
    /\ ~(i < Len(remaining_bytes))
    /\ parsed_data' = FinalStatus(Put(parsed_data, "custom_data",
                                      Join(custom_data_decoded_parts)))
    /\ pc' = "done"
    /\ UNCHANGED <<hex_str, byte_data, offset, remaining_bytes, i,
                   custom_data_decoded_parts>>
    /\ UNCHANGED outside_parse

Next ==
    \/ ValidateHex
    \/ UnhexlifyStep
    \/ ParseDataId
    \/ ParseFixTime
    \/ ParseLatHemi
    \/ ParseLatRaw
    \/ ParseLonHemi
    \/ ParseLonRaw
    \/ ParseAltitude
    \/ ParseSeparator
    \/ DecodeStep
    \/ Finalize

Spec == Init /\ [][Next]_vars

-----------------------------------------------------------------------------
(* Regular expressions and numbers of the normalizers *)

\* longest fractional part of the raw coordinate values tried
MaxFrac == 6

IsAsciiDigit(c) == c \in 48..57

\* \d of a str pattern: the ASCII digits and the other Unicode decimal
\* digits, of which the fullwidth digits U+FF10..U+FF19 are described
IsUnicodeDigit(c) == c \in 48..57 \/ c \in 65296..65305

\* value of a decimal digit, as int() and float() read it
DecimalDigit(c) == IF c <= 57 THEN c - 48 ELSE c - 65296

\* under re.match a final $ also matches before one trailing newline: the
\* part of s the rest of the pattern has to match entirely
BeforeFinalNewline(s) ==
    IF Len(s) > 0 /\ s[Len(s)] = 10 THEN SubSeq(s, 1, Len(s) - 1) ELSE s

\* positions of '.' in s
DotPositions(s) == {k \in 1..Len(s) : s[k] = 46}

\* s.split('.')[0] and [1] of a string with exactly one '.'
BeforeDot(s) == SubSeq(s, 1, (CHOOSE k \in DotPositions(s) : TRUE) - 1)

AfterDot(s) == SubSeq(s, (CHOOSE k \in DotPositions(s) : TRUE) + 1, Len(s))

RECURSIVE IntOf(_)
\* int(s) of a string of digits ('' counts 0)
IntOf(s) ==
    IF s = <<>> THEN 0
    ELSE 10 * IntOf(SubSeq(s, 1, Len(s) - 1)) + DecimalDigit(s[Len(s)])

RECURSIVE Pow10(_)
Pow10(n) == IF n = 0 THEN 1 ELSE 10 * Pow10(n - 1)

RECURSIVE IntToDigits(_)
\* the decimal digits of a natural number, "0" for 0
IntToDigits(n) ==
    IF n < 10 THEN <<48 + n>> ELSE Append(IntToDigits(n \div 10), 48 + (n % 10))

\* str.upper() of a one-letter string (ASCII letters)
Upper(h) == [k \in 1..Len(h) |-> IF h[k] \in 97..122 THEN h[k] - 32 ELSE h[k]]

\* " (格式错误或缺失)", " (格式不符)", "米"
SuffixMalformed == <<32, 40, 26684, 24335, 38169, 35823, 25110, 32570, 22833, 41>>
SuffixMismatch == <<32, 40, 26684, 24335, 19981, 31526, 41>>
SuffixMetre == <<31859>>

\* "北纬", "南纬", "东经", "西经"
NameNorth == <<21271, 32428>>
NameSouth == <<21335, 32428>>
NameEast == <<19996, 32463>>
NameWest == <<35199, 32463>>

-----------------------------------------------------------------------------
(* convert_dmm_to_decimal *)

\* re.match(r'^\d+\.\d+$', dmm_str)
MatchesDmmPattern(s) ==
    LET body == BeforeFinalNewline(s)
    IN /\ Cardinality(DotPositions(body)) = 1
       /\ \A k \in 1..Len(body) : body[k] = 46 \/ IsUnicodeDigit(body[k])
       /\ body[1] # 46 /\ body[Len(body)] # 46

\* the value of convert_dmm_to_decimal when it returns None
NoDecimal == [present |-> FALSE, micro |-> 0]

\* round(x, 6) in millionths of a degree, for x = num / den millionths: the
\* nearest integer; when x lies exactly between two, the binary doubles of
\* the computation decide, and either neighbour can come out
RoundCandidates(num, den) ==
    LET q == num \div den
        r == num % den
    IN IF 2 * r < den THEN {q}
       ELSE IF 2 * r > den THEN {q + 1}
       ELSE {q, q + 1}

\* hemisphere in ['S', 'W']
IsNegativeHemisphere(hemi) == hemi \in {<<83>>, <<87>>}

\* variant: three degree digits are taken whatever the length
DegreeDigitsThree(int_part) == 3

\* number of degree digits for an integer part of 4 or 5 digits
DegreeDigits(int_part) == IF Len(int_part) = 4 THEN 2 ELSE 3

\* the values convert_dmm_to_decimal(dmm_str, hemi) can return, in
\* millionths of a degree
ConvertDmmToDecimal(dmm_str, hemi) ==
    IF ~MatchesDmmPattern(dmm_str) THEN {NoDecimal}
    ELSE LET int_part == BeforeDot(dmm_str)
             frac_part == BeforeFinalNewline(AfterDot(dmm_str))
         IN IF Len(int_part) \notin {4, 5} THEN {NoDecimal}
            ELSE LET nd == DegreeDigits(int_part)
                     degrees == IntOf(SubSeq(int_part, 1, nd))
                     \* minutes as an integer count of 10^-f minutes
                     f == Len(frac_part)
                     m == IntOf(SubSeq(int_part, nd + 1, Len(int_part)) \o frac_part)
                     num == IF f <= 6 THEN m * Pow10(6 - f) ELSE m
                     den == IF f <= 6 THEN 60 ELSE 60 * Pow10(f - 6)
                 IN { [present |-> TRUE,
                       micro |-> IF IsNegativeHemisphere(hemi)
                                 THEN 0 - (degrees * 1000000 + c)
                                 ELSE degrees * 1000000 + c] :
                        c \in RoundCandidates(num, den) }

-----------------------------------------------------------------------------
(* format_coords *)

\* re.match(r'^[0-9.]+$', value_str)
MatchesCoordChars(s) ==
    LET body == BeforeFinalNewline(s)
    IN /\ Len(body) >= 1
       /\ \A k \in 1..Len(body) : body[k] = 46 \/ IsAsciiDigit(body[k])

\* re.match(r'^(\d+)(\d{2}\.\d{5})$', value_str), for a string of [0-9.]
MatchesDegMin(s) ==
    LET body == BeforeFinalNewline(s)
    IN /\ Len(body) >= 9
       /\ DotPositions(body) = {Len(body) - 5}

\* hemi_map.get(hemisphere.upper(), hemisphere)
HemiFull(hemi) ==
    LET u == Upper(hemi)
    IN IF u = <<78>> THEN NameNorth
       ELSE IF u = <<83>> THEN NameSouth
       ELSE IF u = <<69>> THEN NameEast
       ELSE IF u = <<87>> THEN NameWest
       ELSE hemi

\* format_coords(hemisphere, value_str) for str arguments
FormatCoords(hemi, s) ==
    IF ~MatchesCoordChars(s) THEN hemi \o s \o SuffixMalformed
    ELSE IF ~MatchesDegMin(s) THEN hemi \o s \o SuffixMismatch
    ELSE LET body == BeforeFinalNewline(s)
             degree_str == SubSeq(body, 1, Len(body) - 8)
             minute_str == SubSeq(body, Len(body) - 7, Len(body))
         IN HemiFull(hemi) \o degree_str \o <<176>> \o minute_str \o <<39>>

-----------------------------------------------------------------------------
(* format_altitude *)

\* re.match(r'^[+-]?[0-9]{1,5}\.[0-9]$', alt_str)
MatchesAltitude(s) ==
    LET body == BeforeFinalNewline(s)
        unsigned == IF Len(body) > 0 /\ body[1] \in {43, 45} THEN Tail(body) ELSE body
    IN /\ Len(unsigned) \in 3..7
       /\ unsigned[Len(unsigned) - 1] = 46
       /\ \A k \in 1..Len(unsigned) : k = Len(unsigned) - 1 \/ IsAsciiDigit(unsigned[k])

\* f"{value:.1f}" for value = float(alt_str): a minus sign when the sign bit
\* is set (also for -0.0), the integer part without leading zeros, one
\* fractional digit
FormatOneDecimal(s) ==
    LET body == BeforeFinalNewline(s)
        negative == body[1] = 45
        unsigned == IF body[1] \in {43, 45} THEN Tail(body) ELSE body
        int_part == SubSeq(unsigned, 1, Len(unsigned) - 2)
    IN (IF negative THEN <<45>> ELSE <<>>)
       \o IntToDigits(IntOf(int_part)) \o <<46, unsigned[Len(unsigned)]>>

\* value >= 0 for value = float(alt_str); -0.0 >= 0 holds
AltitudeNonNegative(s) ==
    LET body == BeforeFinalNewline(s)
        unsigned == IF body[1] \in {43, 45} THEN Tail(body) ELSE body
    IN body[1] # 45 \/ \A k \in 1..Len(unsigned) : unsigned[k] \in {46, 48}

\* format_altitude(alt_str) for a str argument
FormatAltitude(s) ==
    IF ~MatchesAltitude(s) THEN s \o SuffixMalformed
    ELSE LET formatted_value == FormatOneDecimal(s)
         IN (IF AltitudeNonNegative(s) /\ formatted_value[1] # 43
             THEN <<43>> \o formatted_value
             ELSE formatted_value) \o SuffixMetre

-----------------------------------------------------------------------------
(* The normalizers applied to arbitrary arguments: a coordinate is formatted
   by format_coords and converted by convert_dmm_to_decimal from the same
   two arguments, an altitude is formatted by format_altitude *)

\* the parser is not running
ParseIdle ==
    /\ hex_str = <<>> /\ pc = "idle" /\ parsed_data = <<>>
    /\ byte_data = <<>> /\ offset = 0 /\ remaining_bytes = <<>> /\ i = 0
    /\ custom_data_decoded_parts = <<>> /\ formatted = <<>>

\* hemisphere arguments: "N", "S", "E", "W", "s", "w", "X"
HemisphereArgs == {<<78>>, <<83>>, <<69>>, <<87>>, <<115>>, <<119>>, <<88>>}

\* integer parts: "4005", "0000", "8959", "9000", "9959", "405", "11623",
\* "17959", "18000", "99999", "116234"
IntParts ==
    { <<52, 48, 48, 53>>, <<48, 48, 48, 48>>, <<56, 57, 53, 57>>,
      <<57, 48, 48, 48>>, <<57, 57, 53, 57>>, <<52, 48, 53>>,
      <<49, 49, 54, 50, 51>>, <<49, 55, 57, 53, 57>>, <<49, 56, 48, 48, 48>>,
      <<57, 57, 57, 57, 57>>, <<49, 49, 54, 50, 51, 52>> }

\* fractional parts: "", "7", "76783", "00000", "99999", "767831", "7678312"
FracParts ==
    { f \in { <<>>, <<55>>, <<55, 54, 55, 56, 51>>, <<48, 48, 48, 48, 48>>,
              <<57, 57, 57, 57, 57>>, <<55, 54, 55, 56, 51, 49>>,
              <<55, 54, 55, 56, 51, 49, 50>> } : Len(f) <= MaxFrac }

\* "", "4005.76783\n", "4005,76783", "-4005.76783", "４００５.76783",
\* "400576783", "40.05.76783"
OddValues ==
    { <<>>, <<52, 48, 48, 53, 46, 55, 54, 55, 56, 51, 10>>,
      <<52, 48, 48, 53, 44, 55, 54, 55, 56, 51>>,
      <<45, 52, 48, 48, 53, 46, 55, 54, 55, 56, 51>>,
      <<65300, 65296, 65296, 65301, 46, 55, 54, 55, 56, 51>>,
      <<52, 48, 48, 53, 55, 54, 55, 56, 51>>,
      <<52, 48, 46, 48, 53, 46, 55, 54, 55, 56, 51>> }

RawValues == { ip \o <<46>> \o fp : ip \in IntParts, fp \in FracParts } \cup OddValues

\* "+00099.5", "-00010.2", "-00000.0", "+00000.0", "00099.5", "99.5", "-0.0",
\* "+12345.6", "-99999.9", "+00099.5\n", " +0009.5", "--1.0", "1e2.5",
\* "123456.7", "+00099.55", "+00099", ""
AltValues ==
    { <<43, 48, 48, 48, 57, 57, 46, 53>>, <<45, 48, 48, 48, 49, 48, 46, 50>>,
      <<45, 48, 48, 48, 48, 48, 46, 48>>, <<43, 48, 48, 48, 48, 48, 46, 48>>,
      <<48, 48, 48, 57, 57, 46, 53>>, <<57, 57, 46, 53>>, <<45, 48, 46, 48>>,
      <<43, 49, 50, 51, 52, 53, 46, 54>>, <<45, 57, 57, 57, 57, 57, 46, 57>>,
      <<43, 48, 48, 48, 57, 57, 46, 53, 10>>, <<32, 43, 48, 48, 48, 57, 46, 53>>,
      <<45, 45, 49, 46, 48>>, <<49, 101, 50, 46, 53>>,
      <<49, 50, 51, 52, 53, 54, 46, 55>>, <<43, 48, 48, 48, 57, 57, 46, 53, 53>>,
      <<43, 48, 48, 48, 57, 57>>, <<>> }

InitNorm ==
    /\ ParseIdle /\ StoreIdle
    /\ coord_display = <<>> /\ decimal_deg = NoDecimal /\ alt_display = <<>>
    /\ \/ /\ npc = "format_coords"
          /\ hemisphere \in HemisphereArgs /\ value_str \in RawValues
          /\ alt_str = <<>>
       \/ /\ npc = "format_altitude"
          /\ hemisphere = <<>> /\ value_str = <<>>
          /\ alt_str \in AltValues

FormatCoordsCall ==
    /\ npc = "format_coords"
    /\ coord_display' = FormatCoords(hemisphere, value_str)
    /\ npc' = "convert"
    /\ UNCHANGED <<parsevars, formatted, storevars, hemisphere, value_str,
                   decimal_deg, alt_str, alt_display>>

ConvertCall ==
    /\ npc = "convert"
    /\ decimal_deg' \in ConvertDmmToDecimal(value_str, hemisphere)
    /\ npc' = "done"
    /\ UNCHANGED <<parsevars, formatted, storevars, hemisphere, value_str,
                   coord_display, alt_str, alt_display>>

FormatAltitudeCall ==
    /\ npc = "format_altitude"
    /\ alt_display' = FormatAltitude(alt_str)
    /\ npc' = "done"
    /\ UNCHANGED <<parsevars, formatted, storevars, hemisphere, value_str,
                   coord_display, decimal_deg, alt_str>>

NextNorm == FormatCoordsCall \/ ConvertCall \/ FormatAltitudeCall

SpecNorm == InitNorm /\ [][NextNorm]_vars

-----------------------------------------------------------------------------
(* format_parsed_data_for_display applied to the result of parse_hex_content.
   The entries copied from the request envelope (IdNumber, MessageId,
   DeliveryCount, NetworkMode, the receive time and the JSON dump) do not
   depend on the parse and are left to the store. *)

\* 'N/A'
NA == <<78, 47, 65>>

\* pd.get(key, default)
Get(pd, key, default) == IF Has(pd, key) THEN pd[key] ELSE default

\* the default entries written before the status is looked at
DisplayDefaults(pd) ==
    ("status" :> [text |-> Get(pd, "parse_status_text", "unknown"),
                  class |-> Get(pd, "parse_status_class", "")])
    @@ ("data_id" :> Get(pd, "data_id", NA))
    @@ ("fix_time" :> Get(pd, "fix_time", NA))
    @@ ("latitude" :> NA)
    @@ ("longitude" :> NA)
    @@ ("altitude" :> NA)
    @@ ("custom_data" :> Get(pd, "custom_data", NA))
    @@ ("decimal_latitude" :> NoDecimal)
    @@ ("decimal_longitude" :> NoDecimal)

\* the records format_parsed_data_for_display(pd, ...) can return
FormatParsedDataForDisplay(pd) ==
    IF Get(pd, "parse_status_class", "") = "error-text"
    THEN {DisplayDefaults(pd)}
    ELSE { ("latitude" :> FormatCoords(pd["lat_hemi"], pd["lat_raw"]))
           @@ ("decimal_latitude" :> dlat)
           @@ ("longitude" :> FormatCoords(pd["lon_hemi"], pd["lon_raw"]))
           @@ ("decimal_longitude" :> dlon)
           @@ ("altitude" :> FormatAltitude(Get(pd, "altitude", NA)))
           @@ DisplayDefaults(pd) :
             dlat \in ConvertDmmToDecimal(pd["lat_raw"], pd["lat_hemi"]),
             dlon \in ConvertDmmToDecimal(pd["lon_raw"], pd["lon_hemi"]) }

\* latitudes "8959.99999", "9000.00000", "9959.99999", "0000.00000",
\* "40057.6783"
DisplayLats ==
    { GoodLat, <<56, 57, 53, 57, 46, 57, 57, 57, 57, 57>>,
      <<57, 48, 48, 48, 46, 48, 48, 48, 48, 48>>,
      <<57, 57, 53, 57, 46, 57, 57, 57, 57, 57>>,
      <<48, 48, 48, 48, 46, 48, 48, 48, 48, 48>>,
      <<52, 48, 48, 53, 55, 46, 54, 55, 56, 51>> }

\* longitudes "17959.99999", "18000.00000", "99999.99999", "1162.345678"
DisplayLons ==
    { GoodLon, <<49, 55, 57, 53, 57, 46, 57, 57, 57, 57, 57>>,
      <<49, 56, 48, 48, 48, 46, 48, 48, 48, 48, 48>>,
      <<57, 57, 57, 57, 57, 46, 57, 57, 57, 57, 57>>,
      <<49, 49, 54, 50, 46, 51, 52, 53, 54, 55, 56>> }

\* altitudes "+00099.5", "-00000.0" and one that is no ASCII text
DisplayAlts == {GoodAlt, <<45, 48, 48, 48, 48, 48, 46, 48>>, Spoil(GoodAlt)}

\* well-formed messages over every pair of coordinates
CoordMessages ==
    { <<164>> \o GoodTime \o <<lh>> \o la \o <<oh>> \o lo \o GoodAlt \o <<45>> :
        lh \in {78, 83}, la \in DisplayLats,
        oh \in {69, 87}, lo \in DisplayLons }

\* messages with an unexpected marker or separator, with altitudes and
\* trailing bytes of each kind
AnomalyMessages ==
    { <<m>> \o GoodTime \o <<lh>> \o la \o <<87>> \o GoodLon \o al \o <<s>> \o t :
        m \in {164, 0}, lh \in {78, 115, 88},
        la \in {GoodLat, <<57, 57, 53, 57, 46, 57, 57, 57, 57, 57>>},
        al \in DisplayAlts, s \in {45, 43},
        t \in {<<>>, <<65>>, <<196, 65>>} }

\* complete messages, every prefix of one, and strings that are no hex text
DisplayInputs ==
    { Hexlify(h, TRUE) : h \in CoordMessages \cup AnomalyMessages }
    \cup { Hexlify(SubSeq(CanonHeader, 1, n), FALSE) : n \in 0..41 }
    \cup { SubSeq(Hexlify(CanonHeader, TRUE), 1, n) : n \in {1, 81} }
    \cup { <<103>> \o Hexlify(CanonHeader, TRUE) }

InitDisplay == InitParse(DisplayInputs) /\ NormIdle /\ StoreIdle

FormatForDisplay ==
    /\ pc = "done"
    /\ formatted' \in FormatParsedDataForDisplay(parsed_data)
    /\ pc' = "displayed"
    /\ UNCHANGED <<hex_str, parsed_data, byte_data, offset, remaining_bytes, i,
                   custom_data_decoded_parts, normvars, storevars>>

NextDisplay == Next \/ FormatForDisplay

SpecDisplay == InitDisplay /\ [][NextDisplay]_vars

-----------------------------------------------------------------------------
(* receive_post_data handled by several threads at once (app.run serves
   each request in a thread of its own and the module takes no lock).  The
   statements that touch DATA_STORE are separate steps of a request: the
   membership test, the creation of the list, the insert and save_data.
   The parse of the content is local to the request; an entry in a list is
   the number of the request that inserted it. *)

\* number of requests handled at once
NumRequests == 2

\* the values of IdNumber
IdNumbers == {"id1", "id2"}

Requests == 1..NumRequests

InitStore ==
    /\ ParseIdle /\ NormIdle
    /\ DATA_STORE = <<>>
    /\ data_file = <<>>
    /\ requests \in [Requests -> [id : IdNumbers, valid : BOOLEAN, pc : {"validate"}]]

\* control of request r moves to position next
Goto(r, next) == requests' = [requests EXCEPT ![r].pc = next]

\* what a request handler leaves alone
outside_store == <<parsevars, formatted, normvars>>

\* the envelope checks: a request failing one is answered 400
ValidateEnvelope ==
    \E r \in Requests :
        /\ requests[r].pc = "validate"
        /\ Goto(r, IF requests[r].valid THEN "check" ELSE "rejected")
        /\ UNCHANGED <<DATA_STORE, data_file, outside_store>>

\* if id_number not in DATA_STORE:
CheckIdNumber ==
    \E r \in Requests :
        /\ requests[r].pc = "check"
        /\ Goto(r, IF requests[r].id \notin DOMAIN DATA_STORE
                   THEN "create" ELSE "insert")
        /\ UNCHANGED <<DATA_STORE, data_file, outside_store>>

\* DATA_STORE[id_number] = []
CreateList ==
    \E r \in Requests :
        /\ requests[r].pc = "create"
        /\ DATA_STORE' = (requests[r].id :> <<>>) @@ DATA_STORE
        /\ Goto(r, "insert")
        /\ UNCHANGED <<data_file, outside_store>>

\* DATA_STORE[id_number].insert(0, message_entry)
InsertEntry ==
    \E r \in Requests :
        /\ requests[r].pc = "insert"
        /\ DATA_STORE' = [DATA_STORE EXCEPT ![requests[r].id] = <<r>> \o @]
        /\ Goto(r, "save")
        /\ UNCHANGED <<data_file, outside_store>>

\* save_data(), then the answer with Code "ok"
SaveData ==
    \E r \in Requests :
        /\ requests[r].pc = "save"
        /\ data_file' = DATA_STORE
        /\ Goto(r, "ok")
        /\ UNCHANGED <<DATA_STORE, outside_store>>

NextStore ==
    \/ ValidateEnvelope
    \/ CheckIdNumber
    \/ CreateList
    \/ InsertEntry
    \/ SaveData

SpecStore == InitStore /\ [][NextStore]_vars

-----------------------------------------------------------------------------
(* Vocabulary of the properties: the input and the wire layout as the       *)
(* specification states them, independent of the parser's own operators     *)

Done == pc = "done"

HexDigitChars == (48..57) \cup (65..70) \cup (97..102)

InputIsHex == \A k \in 1..Len(hex_str) : hex_str[k] \in HexDigitChars

InputIsOdd == Len(hex_str) % 2 = 1

\* a valid hex string: only hex digits, an even number of them
InputValid == InputIsHex /\ ~InputIsOdd

\* number of bytes a valid input decodes to
InputBytes == Len(hex_str) \div 2

DigitValue(c) == IF c <= 57 THEN c - 48 ELSE IF c <= 70 THEN c - 55 ELSE c - 87

\* byte at 0-based offset k of a valid input
InputByte(k) == 16 * DigitValue(hex_str[2 * k + 1]) + DigitValue(hex_str[2 * k + 2])

\* the fixed fields in wire order, with their lengths
WireOrder ==
    << [key |-> "data_id",   len |-> 1,  err |-> ErrShortDataId],
       [key |-> "fix_time",  len |-> 8,  err |-> ErrShortFixTime],
       [key |-> "lat_hemi",  len |-> 1,  err |-> ErrShortLatHemi],
       [key |-> "lat_raw",   len |-> 10, err |-> ErrShortLatRaw],
       [key |-> "lon_hemi",  len |-> 1,  err |-> ErrShortLonHemi],
       [key |-> "lon_raw",   len |-> 11, err |-> ErrShortLonRaw],
       [key |-> "altitude",  len |-> 8,  err |-> ErrShortAltitude],
       [key |-> "separator", len |-> 1,  err |-> ErrShortSeparator] >>

RECURSIVE FieldEnd(_)
\* offset + length of the k-th field
FieldEnd(k) == IF k = 0 THEN 0 ELSE FieldEnd(k - 1) + WireOrder[k].len

FieldStart(k) == FieldEnd(k - 1)

\* 41, the length of the fixed part
FixedLength == FieldEnd(Len(WireOrder))

FixedKeys == { WireOrder[k].key : k \in 1..Len(WireOrder) }

\* the first field whose offset + length exceeds a buffer of n < 41 bytes
FirstMissing(n) ==
    CHOOSE k \in 1..Len(WireOrder) :
        FieldEnd(k) > n /\ \A j \in 1..(k - 1) : FieldEnd(j) <= n

\* the input is valid hex and decodes to at least 41 bytes
InputComplete == InputValid /\ InputBytes >= FixedLength

\* the input is valid hex and decodes to fewer than 41 bytes
InputTruncated == InputValid /\ InputBytes < FixedLength

\* every byte of the k-th field of a complete input is below 0x80
FieldIsAscii(k) == \A o \in FieldStart(k)..(FieldEnd(k) - 1) : InputByte(o) < 128

IsFatal == Has(parsed_data, "parse_error_detail")

StatusIs(text) ==
    Has(parsed_data, "parse_status_text") /\ parsed_data["parse_status_text"].text = text

\* the three outcomes
OutcomeFatal ==
    /\ IsFatal
    /\ parsed_data["parse_status_class"] = "error-text"
    /\ ~StatusIs(StatusSuccess) /\ ~StatusIs(StatusWarning)

OutcomeWarning ==
    /\ ~IsFatal
    /\ StatusIs(StatusWarning)
    /\ parsed_data["parse_status_text"].detail # <<>>

OutcomeSuccess ==
    /\ ~IsFatal
    /\ StatusIs(StatusSuccess)
    /\ parsed_data["parse_status_class"] = "success-text"
    /\ ~Has(parsed_data, "parse_warning_detail")

\* the warnings listed in the warning status
Warned(w) ==
    \E k \in 1..Len(parsed_data["parse_status_text"].detail) :
        parsed_data["parse_status_text"].detail[k] = w

-----------------------------------------------------------------------------
(* Properties *)

\* C1: every valid hex string that decodes to fewer than 41 bytes ends fatal
\* (parse_error_detail set, error status, neither success nor warning), and
\* the reason names the first field, in wire order, whose offset + length
\* exceeds the buffer length.
C1_TruncatedIsFatalNamingFirstField ==
    (Done /\ InputTruncated) =>
        /\ OutcomeFatal
        /\ StatusIs(StatusParseError)
        /\ parsed_data["parse_error_detail"] = WireOrder[FirstMissing(InputBytes)].err

\* a 20-byte buffer was refused at the longitude hemisphere
C1_Witness ==
    /\ Done /\ InputTruncated /\ InputBytes = 20
    /\ parsed_data["parse_error_detail"] = ErrShortLonHemi

\* C2 as stated: every odd-length or non-hex-digit input ends fatal with no
\* field decoded and with one and the same reason, "invalid hex", in both
\* cases.
C2_InvalidHexOneReason ==
    (Done /\ (InputIsOdd \/ ~InputIsHex)) =>
        /\ OutcomeFatal
        /\ DOMAIN parsed_data \cap (FixedKeys \cup {"custom_data"}) = {}
        /\ parsed_data["parse_error_detail"] = ErrNotHex

\* C2 amended: every odd-length or non-hex-digit input ends fatal with an
\* error status and no field decoded; the reason is the format error when
\* some character is no hex digit, and the decoding error when all characters
\* are hex digits but their number is odd.
C2_InvalidHexTwoReasons ==
    (Done /\ (InputIsOdd \/ ~InputIsHex)) =>
        /\ OutcomeFatal
        /\ DOMAIN parsed_data \cap (FixedKeys \cup {"custom_data"}) = {}
        /\ IF ~InputIsHex
           THEN /\ parsed_data["parse_error_detail"] = ErrNotHex
                /\ StatusIs(StatusHexFormat)
           ELSE /\ parsed_data["parse_error_detail"] = ErrUnhexlify
                /\ StatusIs(StatusHexDecode)

\* an odd number of hex digits was refused by the decoding step
C2_Witness ==
    /\ Done /\ InputIsOdd /\ InputIsHex /\ Len(hex_str) > 80
    /\ parsed_data["parse_error_detail"] = ErrUnhexlify

\* the preconditions C3 names: marker, separator and hemisphere letters right
C3_Expected ==
    /\ InputComplete
    /\ InputByte(0) = 164
    /\ InputByte(40) = 45
    /\ InputByte(9) \in {78, 83}
    /\ InputByte(20) \in {69, 87}

\* C3 as stated: a complete buffer with the right marker, separator and
\* hemisphere letters yields success whatever the other bytes are.
C3_SuccessWhateverOtherBytes == (Done /\ C3_Expected) => OutcomeSuccess

\* C3 amended: a complete buffer with the right marker, separator and
\* hemisphere letters, whose timestamp, latitude, longitude and altitude
\* bytes are all below 0x80, yields success whatever the trailing bytes are.
C3_SuccessWhenFieldsAscii ==
    (Done /\ C3_Expected /\ \A k \in {2, 4, 6, 7} : FieldIsAscii(k)) => OutcomeSuccess

\* success with a trailing segment that holds an undecodable byte
C3_Witness ==
    /\ Done /\ C3_Expected /\ OutcomeSuccess
    /\ InputBytes = FixedLength + 2 /\ InputByte(FixedLength) = 255

\* C4: in a complete buffer a marker other than 0xA4 or a separator other
\* than 0x2D is never fatal: parsing runs to the end, the status is
\* success-with-warnings and the warning text names the anomaly.
C4_MarkerSeparatorWarnOnly ==
    (Done /\ InputComplete /\ (InputByte(0) # 164 \/ InputByte(40) # 45)) =>
        /\ OutcomeWarning
        /\ Has(parsed_data, "custom_data")
        /\ InputByte(0) # 164 => Warned(WarnDataId)
        /\ InputByte(40) # 45 => Warned(WarnSeparator)

\* separator 0x2B with a wrong marker too: both anomalies are named
C4_Witness ==
    /\ Done /\ InputComplete /\ InputByte(0) # 164 /\ InputByte(40) = 43
    /\ OutcomeWarning /\ Warned(WarnSeparator) /\ Warned(WarnDataId)

\* C5 as stated: in a complete buffer a latitude hemisphere other than N/S or
\* a longitude hemisphere other than E/W records a warning (status
\* success-with-warnings), the letter being passed through unchanged.
C5_BadHemisphereWarns ==
    (Done /\ InputComplete
          /\ (InputByte(9) \notin {78, 83} \/ InputByte(20) \notin {69, 87})) =>
        /\ OutcomeWarning
        /\ InputByte(9) < 128 => parsed_data["lat_hemi"] = <<InputByte(9)>>
        /\ InputByte(20) < 128 => parsed_data["lon_hemi"] = <<InputByte(20)>>

\* C6: the outcome is exactly one of three states: fatal iff the input is
\* not valid hex or decodes to fewer than 41 bytes (also when a warning was
\* recorded before the truncation was met); success-with-warnings iff not
\* fatal and a warning was recorded; success iff not fatal and no warning
\* was recorded.
C6_TriState ==
    Done =>
        /\ OutcomeFatal <=> ~InputComplete
        /\ OutcomeWarning <=> (InputComplete /\ Has(parsed_data, "parse_warning_detail"))
        /\ OutcomeSuccess <=> (InputComplete /\ ~Has(parsed_data, "parse_warning_detail"))
        /\ Cardinality({o \in {"fatal", "warning", "success"} :
                           \/ o = "fatal" /\ OutcomeFatal
                           \/ o = "warning" /\ OutcomeWarning
                           \/ o = "success" /\ OutcomeSuccess}) = 1

\* a truncated buffer whose marker mismatch had been recorded ends fatal
C6_Witness ==
    /\ Done /\ InputTruncated /\ InputBytes > 20
    /\ Has(parsed_data, "parse_warning_detail")
    /\ OutcomeFatal /\ StatusIs(StatusParseError)

\* C7: a non-fatal result carries all eight fixed fields and the trailing
\* text, which is empty when the buffer is exactly 41 bytes long.
C7_DecodedIsComplete ==
    (Done /\ ~IsFatal) =>
        /\ FixedKeys \cup {"custom_data"} \subseteq DOMAIN parsed_data
        /\ InputBytes = FixedLength => parsed_data["custom_data"] = <<>>

\* a 41-byte buffer decoded with all fields and empty trailing text
C7_Witness ==
    /\ Done /\ ~IsFatal /\ InputBytes = FixedLength
    /\ FixedKeys \subseteq DOMAIN parsed_data
    /\ parsed_data["custom_data"] = <<>>

\* C8 as stated: a result that is fatal because the buffer is truncated has
\* no fixed field populated.
C8_FatalHasNoField ==
    (Done /\ InputTruncated /\ IsFatal) => DOMAIN parsed_data \cap FixedKeys = {}

\* C8 amended: a result that is fatal because the buffer is truncated holds
\* exactly the fixed fields that lie wholly inside the buffer, those before
\* the field the reason names; that field, every later one and the trailing
\* text are absent.
C8_FatalHasFieldsBeforeTruncation ==
    (Done /\ InputTruncated) =>
        /\ IsFatal
        /\ DOMAIN parsed_data \cap (FixedKeys \cup {"custom_data"}) =
              { WireOrder[k].key : k \in 1..(FirstMissing(InputBytes) - 1) }

\* a 15-byte buffer: marker, timestamp and latitude hemisphere are present,
\* the latitude value is not
C8_Witness ==
    /\ Done /\ InputTruncated /\ InputBytes = 15 /\ IsFatal
    /\ {"data_id", "fix_time", "lat_hemi"} \subseteq DOMAIN parsed_data
    /\ ~Has(parsed_data, "lat_raw")

\* number of input bytes a piece stands for: two for a GBK character or a
\* pair of single-byte characters, one for an ASCII character or an escape
Consumed(piece) ==
    IF Len(piece) = 2 \/ (Len(piece) = 1 /\ piece[1] >= 128) THEN 2 ELSE 1

RECURSIVE ConsumedBy(_)
ConsumedBy(parts) ==
    IF parts = <<>> THEN 0 ELSE Consumed(Head(parts)) + ConsumedBy(Tail(parts))

\* an escape marker "<hh>"
IsEscape(piece) == Len(piece) > 2 /\ piece[1] = 60 /\ piece[Len(piece)] = 62

EscapeCount(parts) == Cardinality({k \in 1..Len(parts) : IsEscape(parts[k])})

\* C9: the decode loop ends without raising: the index grows by 1 or 2 per
\* piece and never passes the segment length, every input byte belongs to
\* exactly one emitted piece, all bytes are consumed when the loop is left,
\* and at most as many escape markers as input bytes are emitted.
C9_LoopConsumesEveryByteOnce ==
    /\ i <= Len(remaining_bytes)
    /\ ConsumedBy(custom_data_decoded_parts) = i
    /\ Len(custom_data_decoded_parts) <= i
    /\ EscapeCount(custom_data_decoded_parts) <= Len(remaining_bytes)
    /\ (Done /\ ~IsFatal) =>
          /\ i = Len(remaining_bytes)
          /\ Len(remaining_bytes) = InputBytes - FixedLength
          /\ parsed_data["custom_data"] = Join(custom_data_decoded_parts)

\* a three-byte segment ending in a single ASCII byte, decoded as one pair
\* and one single byte
C9_Witness ==
    /\ Done /\ ~IsFatal /\ Len(remaining_bytes) = 3 /\ i = 3
    /\ Len(custom_data_decoded_parts) = 2
    /\ remaining_bytes[3] < 128
    /\ Consumed(custom_data_decoded_parts[1]) = 2

\* C10 as stated: the emitted string is never longer than the input bytes.
C10_EmittedNoLongerThanInput ==
    (Done /\ ~IsFatal) => Len(parsed_data["custom_data"]) <= Len(remaining_bytes)

\* C10 amended: the emitted string is at most four times as long as the
\* input bytes (an escape turns one byte into four characters), and no longer
\* than the input bytes when no escape is emitted.
C10_EmittedAtMostFourfold ==
    (Done /\ ~IsFatal) =>
        /\ Len(parsed_data["custom_data"]) <= 4 * Len(remaining_bytes)
        /\ EscapeCount(custom_data_decoded_parts) = 0 =>
              Len(parsed_data["custom_data"]) <= Len(remaining_bytes)

\* a segment made only of undecodable bytes, emitted at four times its length
C10_Witness ==
    /\ Done /\ ~IsFatal /\ Len(remaining_bytes) = 2
    /\ EscapeCount(custom_data_decoded_parts) = 2
    /\ Len(parsed_data["custom_data"]) = 8

\* printable ASCII
PrintableAscii(b) == b \in 32..126

\* the two bytes at 0-based position k of the trailing segment are one
\* two-byte character
TwoByteCharAt(k) ==
    /\ k + 2 <= Len(remaining_bytes)
    /\ remaining_bytes[k + 1] >= 129
    /\ GbkDecodable(<<remaining_bytes[k + 1], remaining_bytes[k + 2]>>)

\* one iteration of the decode loop is taken
LoopIteration == pc = "custom" /\ i < Len(remaining_bytes) /\ i' # i

\* the piece the iteration appended
NewPiece == custom_data_decoded_parts'[Len(custom_data_decoded_parts')]

\* C11 as stated: where the current byte is printable ASCII and no two-byte
\* character starts there, the decoder emits that character alone, never an
\* escape, and advances exactly one byte; an escape is emitted only for a
\* byte that neither starts a two-byte character nor is ASCII.
C11_AsciiAdvancesOneByte ==
    [][LoopIteration =>
        LET b == remaining_bytes[i + 1]
        IN /\ (PrintableAscii(b) /\ ~TwoByteCharAt(i)) =>
                 (NewPiece = <<b>> /\ i' = i + 1)
           /\ IsEscape(NewPiece) => (b >= 128 /\ ~TwoByteCharAt(i))]_vars

\* C11 amended: where the current byte is printable ASCII and no two-byte
\* character starts there, the decoder emits that character itself, never an
\* escape; it advances one byte, except that when the next byte is ASCII too
\* the two-byte attempt succeeds on the pair, both characters are emitted as
\* one piece and the index advances two bytes.  An escape is emitted only for
\* a byte that neither starts a two-byte character nor is ASCII.
C11_AsciiNeverEscaped ==
    [][LoopIteration =>
        LET b == remaining_bytes[i + 1]
            nextIsAscii == i + 2 <= Len(remaining_bytes) /\ remaining_bytes[i + 2] < 128
        IN /\ (PrintableAscii(b) /\ ~TwoByteCharAt(i)) =>
                 /\ ~IsEscape(NewPiece)
                 /\ IF nextIsAscii
                    THEN NewPiece = <<b, remaining_bytes[i + 2]>> /\ i' = i + 2
                    ELSE NewPiece = <<b>> /\ i' = i + 1
           /\ IsEscape(NewPiece) =>
                 /\ b >= 128 /\ ~TwoByteCharAt(i)
                 /\ NewPiece = <<60>> \o HexByte(b, FALSE) \o <<62>>
                 /\ i' = i + 1]_vars

\* 'A' before a lead byte is emitted alone, the lead byte before '1' is
\* escaped, '1' is emitted alone
C11_Witness ==
    /\ Done /\ ~IsFatal
    /\ remaining_bytes = <<65, 196, 49>>
    /\ custom_data_decoded_parts = << <<65>>, <<60, 99, 52, 62>>, <<49>> >>

-----------------------------------------------------------------------------
(* Vocabulary of the normalizer properties *)

\* both normalizers of a coordinate have returned
CoordDone == npc = "done" /\ hemisphere # <<>>

\* format_altitude has returned
AltDone == npc = "done" /\ hemisphere = <<>>

EndsWith(s, suffix) ==
    /\ Len(s) >= Len(suffix)
    /\ SubSeq(s, Len(s) - Len(suffix) + 1, Len(s)) = suffix

\* s is <degree digits><2 minute digits>.<exactly 5 digits>
RawWellFormed(s) ==
    /\ Len(s) >= 9
    /\ \A k \in 1..Len(s) :
          IF k = Len(s) - 5 THEN s[k] = 46 ELSE IsAsciiDigit(s[k])

\* a display annotated as malformed
AnnotatedMalformed(d) == EndsWith(d, SuffixMalformed) \/ EndsWith(d, SuffixMismatch)

\* a display in the degree/minute form: ...<digits>°<2 digits>.<5 digits>'
DegreeMinuteForm(d) ==
    /\ Len(d) >= 11
    /\ d[Len(d)] = 39
    /\ d[Len(d) - 9] = 176
    /\ RawWellFormed(SubSeq(d, Len(d) - 10, Len(d) - 10) \o SubSeq(d, Len(d) - 8, Len(d) - 1))

-----------------------------------------------------------------------------
\* C12: a raw coordinate not of the form <degree digits><2 minute
\* digits>.<5 digits> has no decimal value and a display annotated as
\* malformed; a decimal value is present only next to a display in the
\* degree/minute form.
C12_MalformedHasNoDecimal ==
    CoordDone =>
        /\ ~RawWellFormed(value_str) =>
              (decimal_deg = NoDecimal /\ AnnotatedMalformed(coord_display))
        /\ decimal_deg.present => DegreeMinuteForm(coord_display)

-----------------------------------------------------------------------------
(* Vocabulary of the display properties *)

\* format_parsed_data_for_display has returned
Displayed == pc = "displayed"

DisplayedSuccess == Displayed /\ formatted["status"].class = "success-text"

\* s is d degree digits, 2 minute digits, '.', 5 digits
MatchesDDMM(s, d) ==
    /\ Len(s) = d + 8
    /\ \A k \in 1..Len(s) : IF k = d + 3 THEN s[k] = 46 ELSE IsAsciiDigit(s[k])

\* such a string denotes at most max degrees (degrees + minutes / 60), the
\* minutes counted in 1/100000
DenotesAtMost(s, d, max) ==
    LET degrees == IntOf(SubSeq(s, 1, d))
        minutes == IntOf(SubSeq(s, d + 1, d + 2) \o SubSeq(s, d + 4, d + 8))
    IN degrees <= max /\ minutes <= (max - degrees) * 6000000

Abs(n) == IF n < 0 THEN 0 - n ELSE n

RawLat == parsed_data["lat_raw"]

RawLon == parsed_data["lon_raw"]

\* both raw coordinates of a successfully parsed, displayed message match
CoordsMatch == DisplayedSuccess /\ MatchesDDMM(RawLat, 2) /\ MatchesDDMM(RawLon, 3)

-----------------------------------------------------------------------------
\* C13 as stated: for a successfully parsed message whose raw latitude is
\* DDMM.MMMMM and whose raw longitude is DDDMM.MMMMM, the decimal latitude
\* lies in -90..90 degrees and the decimal longitude in -180..180 degrees.
C13_DecimalWithinGlobe ==
    CoordsMatch =>
        /\ Abs(formatted["decimal_latitude"].micro) <= 90000000
        /\ Abs(formatted["decimal_longitude"].micro) <= 180000000

\* C13, amended: for such a message both decimals are present; the decimal
\* latitude lies in -90..90 when the raw digits denote at most 90 degrees
\* (degrees + minutes / 60) and the decimal longitude in -180..180 when they
\* denote at most 180 degrees; nothing validates the range, and in general
\* only |latitude| <= 100.666667 and |longitude| <= 1000.666667 hold.
C13_DecimalWithinRawRange ==
    CoordsMatch =>
        LET dlat == formatted["decimal_latitude"]
            dlon == formatted["decimal_longitude"]
        IN /\ dlat.present /\ dlon.present
           /\ Abs(dlat.micro) <= 100666667
           /\ Abs(dlon.micro) <= 1000666667
           /\ DenotesAtMost(RawLat, 2, 90) => Abs(dlat.micro) <= 90000000
           /\ DenotesAtMost(RawLon, 3, 180) => Abs(dlon.micro) <= 180000000

\* latitude "8959.99999" south and longitude "18000.00000" east reach the
\* two ends of the range
C13_Witness ==
    /\ CoordsMatch
    /\ RawLat = <<56, 57, 53, 57, 46, 57, 57, 57, 57, 57>>
    /\ RawLon = <<49, 56, 48, 48, 48, 46, 48, 48, 48, 48, 48>>
    /\ formatted["decimal_latitude"] = [present |-> TRUE, micro |-> 0 - 90000000]
    /\ formatted["decimal_longitude"] = [present |-> TRUE, micro |-> 180000000]

-----------------------------------------------------------------------------
(* Vocabulary of the altitude property *)

\* s without a leading sign character
Unsigned(s) == IF Len(s) > 0 /\ s[1] \in {43, 45} THEN Tail(s) ELSE s

\* s is an optional sign, 1 to 5 digits, '.', one digit
AltWellFormed(s) ==
    LET u == Unsigned(s)
    IN /\ Len(u) \in 3..7
       /\ \A k \in 1..Len(u) : IF k = Len(u) - 1 THEN u[k] = 46 ELSE IsAsciiDigit(u[k])

\* the number such a string denotes, in tenths, without its sign
AltTenths(s) ==
    LET u == Unsigned(s)
    IN 10 * IntOf(SubSeq(u, 1, Len(u) - 2)) + (u[Len(u)] - 48)

-----------------------------------------------------------------------------
\* C14: for a raw altitude of the form optional sign, 1 to 5 digits, '.', one
\* digit, format_altitude returns exactly one sign character ('-' for a
\* negative value, '+' otherwise; one sign also for a zero such as
\* "-00000.0"), the value with one fractional digit and the unit suffix; for
\* any other string (a final newline aside) it returns the raw text annotated
\* as malformed.
C14_OneSignOneDigitUnit ==
    AltDone =>
        IF AltWellFormed(alt_str)
        THEN LET d == alt_display
                 number == SubSeq(d, 2, Len(d) - 1)
             IN /\ Len(d) >= 5
                /\ d[1] \in {43, 45}
                /\ AltTenths(alt_str) # 0 => (d[1] = 45 <=> alt_str[1] = 45)
                /\ AltWellFormed(number) /\ number[1] \notin {43, 45}
                /\ AltTenths(number) = AltTenths(alt_str)
                /\ d[Len(d)] = 31859
        ELSE (alt_str = <<>> \/ alt_str[Len(alt_str)] # 10)
                => alt_display = alt_str \o SuffixMalformed

-----------------------------------------------------------------------------
\* a displayed message parsed to the end with at least one warning
DisplayedWarning ==
    Displayed /\ ~IsFatal /\ Has(parsed_data, "parse_warning_detail")

\* C15: for a message whose outcome is success-with-warnings the displayed
\* record is populated as for a success: latitude, longitude and altitude
\* are the normalizers' outputs on the raw fields and the decimals are
\* present whenever the raw patterns match; only a fatal outcome leaves the
\* defaults.
C15_WarningsFullyPopulated ==
    /\ DisplayedWarning =>
          /\ formatted["latitude"] = FormatCoords(parsed_data["lat_hemi"], RawLat)
          /\ formatted["longitude"] = FormatCoords(parsed_data["lon_hemi"], RawLon)
          /\ formatted["altitude"] = FormatAltitude(parsed_data["altitude"])
          /\ MatchesDDMM(RawLat, 2) => formatted["decimal_latitude"].present
          /\ MatchesDDMM(RawLon, 3) => formatted["decimal_longitude"].present
    /\ (Displayed /\ ~IsFatal) =>
          (formatted["latitude"] # NA /\ formatted["longitude"] # NA
           /\ formatted["altitude"] # NA)

-----------------------------------------------------------------------------
StartsWith(s, prefix) ==
    Len(s) >= Len(prefix) /\ SubSeq(s, 1, Len(prefix)) = prefix

\* the display shows the southern or the western hemisphere name
ShowsSouthOrWest ==
    StartsWith(coord_display, NameSouth) \/ StartsWith(coord_display, NameWest)

\* C16: whenever both the degree/minute display and the decimal value are
\* produced, they agree on the hemisphere: the decimal is negative exactly
\* when the display shows the southern or western name, and positive when it
\* shows the northern or eastern name or an unknown letter.
C16_SignAgreesWithDisplay ==
    (CoordDone /\ decimal_deg.present /\ DegreeMinuteForm(coord_display)
     /\ decimal_deg.micro # 0)
        => (decimal_deg.micro < 0 <=> ShowsSouthOrWest)

-----------------------------------------------------------------------------
(* Vocabulary of the store property *)

\* request r was answered with Code "ok"
Accepted(r) == requests[r].pc = "ok"

\* every request has been answered
AllAnswered == \A r \in Requests : requests[r].pc \in {"ok", "rejected"}

\* the list stored under an id, empty when there is none
StoredUnder(id) == IF id \in DOMAIN DATA_STORE THEN DATA_STORE[id] ELSE <<>>

Holds(list, r) == \E k \in 1..Len(list) : list[k] = r

-----------------------------------------------------------------------------
\* C17: under any interleaving of concurrent /api/receive requests, every
\* request answered with Code "ok" has its entry in DATA_STORE under its
\* IdNumber, and once all requests are answered the list of each id is as
\* long as the number of accepted requests for that id.
C17_NoMessageLost ==
    /\ \A r \in Requests :
          Accepted(r) => Holds(StoredUnder(requests[r].id), r)
    /\ AllAnswered =>
          \A id \in IdNumbers :
              Len(StoredUnder(id))
                = Cardinality({r \in Requests : Accepted(r) /\ requests[r].id = id})

====
